---- MODULE Spec2Model ----
(***************************************************************************)
(* A model of config_proxy.py: the ConfigProxy store (file discovery,      *)
(* loading, schema validation, JSON-path queries, the class-level cached   *)
(* instance) and the ConfigProperty resolvers with their typed variants.   *)
(***************************************************************************)
EXTENDS Naturals, Sequences, FiniteSets, TLC

VARIABLES environ, disk, current_config, ret

vars == <<environ, disk, current_config, ret>>

(***************************************************************************)
(* Python values.  A scalar or a JSON object is a tagged record; a Python  *)
(* list (a JSON array, or the list get_value builds from the matches) is   *)
(* the record tagged "list" that holds its items.                          *)
(***************************************************************************)
Val(tag) == [tag |-> tag, items |-> <<>>]

PyList(s) == [tag |-> "list", items |-> s]

PyNone == Val("null")

PyStr(s) == Val("s:" \o s)

\* Python truthiness of a value: None, 0, False, "", [] and {} are falsy.
Truthy(v) ==
  CASE v.tag = "list" -> v.items # <<>>
    [] OTHER -> v.tag \notin {"null", "n:0", "false", "s:", "o:{}"}

(***************************************************************************)
(* The process environment: os.getenv(name, None).                         *)
(***************************************************************************)
UNSET == "<unset>"

getenv(name) == IF environ[name] = UNSET THEN PyNone ELSE PyStr(environ[name])

(***************************************************************************)
(* The two store types: ConfigProxy itself and a subclass that overrides   *)
(* env_location and strict, as the class docstring prescribes.             *)
(***************************************************************************)
Base == "ConfigProxy"

Sub == "Settings"

Classes == {Base, Sub}

env_location(cls) == IF cls = Base THEN "CONFIG_PATH" ELSE "PATH_TO_CONFIG"

config_file_names(cls) == <<"config.json">>

strict(cls) == cls = Base

(***************************************************************************)
(* The file system.  A config file is absent, malformed, or holds one of   *)
(* the documents; the schema file is absent, malformed, or holds a schema. *)
(***************************************************************************)
ABSENT == "<absent>"

MALFORMED == "<malformed>"

EnvFile == "/etc/app.json"

WdFile(fname) == "wd/" \o fname

PdFile(fname) == "pd/" \o fname

SchemaPath == "main/config.schema.json"

ConfigFiles == {EnvFile, WdFile("config.json"), PdFile("config.json")}

Files == ConfigFiles \cup {SchemaPath}

Docs == {"D1", "D2"}

EmptyDoc == "{}"

SchemaDoc == "S"

NoSchema == "{}"

exists(path) == path \in Files /\ disk[path] # ABSENT

\* jsonschema.validate: the schema on disk accepts D1 and the empty document.
Validates(doc, schema) == schema = NoSchema \/ doc # "D2"

(***************************************************************************)
(* jsonpath(path).find(document): the matched values, in match order.  The *)
(* evaluator is an external library; its results are tabulated for         *)
(*   D1 = {"database": {"host": "db1", "port": 0, "ports": [1,2,3],        *)
(*                      "tags": [], "debug": false, "opts": {}}}           *)
(*   D2 = {"database": {"host": "", "port": 5432, "ports": [7],            *)
(*                      "tags": ["a","b"], "debug": true,                  *)
(*                      "opts": {"k": 1}, "password": null}}               *)
(***************************************************************************)
Paths ==
  {"database.host", "database.port", "database.ports[*]", "database.tags",
   "database.debug", "database.opts", "database.password"}

Find(doc, path) ==
  CASE doc = "D1" ->
         (CASE path = "database.host" -> <<PyStr("db1")>>
            [] path = "database.port" -> <<Val("n:0")>>
            [] path = "database.ports[*]" -> <<Val("n:1"), Val("n:2"), Val("n:3")>>
            [] path = "database.tags" -> <<PyList(<<>>)>>
            [] path = "database.debug" -> <<Val("false")>>
            [] path = "database.opts" -> <<Val("o:{}")>>
            [] OTHER -> <<>>)
    [] doc = "D2" ->
         (CASE path = "database.host" -> <<PyStr("")>>
            [] path = "database.port" -> <<Val("n:5432")>>
            [] path = "database.ports[*]" -> <<Val("n:7")>>
            [] path = "database.tags" -> <<PyList(<<PyStr("a"), PyStr("b")>>)>>
            [] path = "database.debug" -> <<Val("true")>>
            [] path = "database.opts" -> <<Val("o:{k:1}")>>
            [] path = "database.password" -> <<PyNone>>
            [] OTHER -> <<>>)
    [] OTHER -> <<>>

(***************************************************************************)
(* A ConfigProxy instance: its type, config_path, config and schema.       *)
(***************************************************************************)
PathNone == "<None>"

Instance(cls, path, doc, schema) ==
  [cls |-> cls, config_path |-> path, config |-> doc, schema |-> schema]

NoInstance == Instance("-", "-", "-", "-")

Raise(error) == [status |-> error, inst |-> NoInstance]

Returns(inst) == [status |-> "ok", inst |-> inst]

FileNotFoundError == "FileNotFoundError"

JSONDecodeError == "JSONDecodeError"

ValidationError == "ValidationError"

ValueError == "ValueError"

\* ConfigProxy.__init__ on a file that exists: load, then validate.
LoadConfig(cls, config_path) ==
  IF disk[config_path] = MALFORMED THEN Raise(JSONDecodeError)
  ELSE IF ~exists(SchemaPath)
  THEN Returns(Instance(cls, config_path, disk[config_path], NoSchema))
  ELSE IF disk[SchemaPath] = MALFORMED THEN Raise(JSONDecodeError)
  ELSE IF ~Validates(disk[config_path], disk[SchemaPath]) THEN Raise(ValidationError)
  ELSE Returns(Instance(cls, config_path, disk[config_path], disk[SchemaPath]))

\* ConfigProxy.__init__(config_path), run for the type cls.
NewConfigProxy(cls, config_path) ==
  IF config_path = PathNone
  THEN IF ~strict(cls)
       THEN Returns(Instance(cls, PathNone, EmptyDoc, NoSchema))
       ELSE Raise(FileNotFoundError)
  ELSE IF ~exists(config_path) THEN Raise(FileNotFoundError)
  ELSE LoadConfig(cls, config_path)

\* The candidate paths of get_config_path: every name in wd, then in pd.
SearchPaths(cls) ==
  LET names == config_file_names(cls)
  IN  [i \in 1..Len(names) |-> WdFile(names[i])] \o
      [i \in 1..Len(names) |-> PdFile(names[i])]

FirstExisting(paths) ==
  LET found == {i \in 1..Len(paths) : exists(paths[i])}
  IN  IF found = {} THEN PathNone
      ELSE paths[CHOOSE i \in found : \A j \in found : i <= j]

\* A plausible slip: the variable's path is one more candidate, skipped when
\* the file is missing.
get_config_path_env_if_exists(cls) ==
  LET config_path == getenv(env_location(cls))
      found == FirstExisting(SearchPaths(cls))
  IN  IF Truthy(config_path) /\ exists(environ[env_location(cls)])
      THEN [status |-> "ok", path |-> environ[env_location(cls)]]
      ELSE IF found # PathNone THEN [status |-> "ok", path |-> found]
      ELSE [status |-> FileNotFoundError, path |-> PathNone]

\* ConfigProxy.get_config_path: the path, or PathNone with FileNotFoundError.
get_config_path(cls) ==
  LET config_path == getenv(env_location(cls))
      found == FirstExisting(SearchPaths(cls))
  IN  IF Truthy(config_path)
      THEN [status |-> "ok", path |-> environ[env_location(cls)]]
      ELSE IF found # PathNone THEN [status |-> "ok", path |-> found]
      ELSE [status |-> FileNotFoundError, path |-> PathNone]

(***************************************************************************)
(* current_config is a class attribute.  Base always has it (None at class *)
(* creation); Sub has none of its own until an assignment through Sub      *)
(* creates one, and until then reads Base's.                               *)
(***************************************************************************)
Absent == [has |-> "absent", inst |-> NoInstance]

IsNone == [has |-> "None", inst |-> NoInstance]

Holds(inst) == [has |-> "instance", inst |-> inst]

\* cls.current_config, read through the class hierarchy.
Lookup(cc, cls) == IF cc[cls] = Absent THEN cc[Base] ELSE cc[cls]

\* ConfigProxy.get_config as a function of the class attributes cc: the
\* outcome of the call and the class attributes after it.
get_config(cc, cls) ==
  LET found == get_config_path(cls)
      config_path == IF found.status = "ok" THEN found.path ELSE PathNone
      made == NewConfigProxy(cls, config_path)
  IN  IF Lookup(cc, cls).has = "instance"
      THEN [out |-> Returns(Lookup(cc, cls).inst), cc |-> cc]
      ELSE IF found.status # "ok" /\ strict(cls)
      THEN [out |-> Raise(FileNotFoundError), cc |-> cc]
      ELSE IF made.status # "ok" THEN [out |-> made, cc |-> cc]
      ELSE [out |-> made, cc |-> [cc EXCEPT ![cls] = Holds(made.inst)]]

\* A plausible slip: reload that forgets to discard the cached instance.
reload_without_discard(cc, cls) == get_config(cc, cls)

\* A plausible slip: reload that puts the old instance back when it fails.
reload_restoring(cc, cls) ==
  LET r == get_config([cc EXCEPT ![cls] = IsNone], cls)
  IN  IF r.out.status = "ok" THEN r ELSE [out |-> r.out, cc |-> cc]

\* ConfigProxy.reload.
reload(cc, cls) == get_config([cc EXCEPT ![cls] = IsNone], cls)

\* A plausible slip: no guessing, a list whenever use_list is not False.
get_value_list_unless_false(inst, path, use_list) ==
  LET expr == Find(inst.config, path)
  IN  IF expr = <<>>
      THEN IF use_list = "True" THEN PyList(<<>>) ELSE PyNone
      ELSE IF use_list = "False" THEN expr[1]
      ELSE PyList(expr)

\* ConfigProxy.get_value(path, use_list) on an instance; use_list is
\* "None", "True" or "False".
get_value(inst, path, use_list) ==
  LET expr == Find(inst.config, path)
  IN  IF expr = <<>>
      THEN IF use_list = "True" THEN PyList(<<>>) ELSE PyNone
      ELSE IF use_list = "True" THEN PyList(expr)
      ELSE IF use_list = "False" THEN expr[1]
      ELSE IF Len(expr) = 1 THEN expr[1]
      ELSE PyList(expr)

(***************************************************************************)
(* ConfigProperty and its typed subclasses.  A property is declared with a *)
(* path, an environment variable name, a default and a store type.         *)
(***************************************************************************)
EnvNone == "<None>"

Property(kind, path, env, default, proxy) ==
  [kind |-> kind, path |-> path, env |-> env, default |-> default, proxy |-> proxy]

NoProperty == Property("-", PathNone, EnvNone, PyNone, "-")

Scalars == {"StringProperty", "IntProperty"}

Collections ==
  {"ListOfIntsProperty", "ListOfStringsProperty", "ListOfObjectsProperty",
   "ListOfListsProperty"}

Kinds == {"ConfigProperty"} \cup Scalars \cup Collections

\* A plausible slip: the variable is consulted only when no path is declared.
env_override_without_path(p) ==
  IF p.env = EnvNone \/ p.path # PathNone THEN PyNone ELSE getenv(p.env)

\* self.env and os.getenv(self.env, None): None when no name is declared.
env_override(p) == IF p.env = EnvNone THEN PyNone ELSE getenv(p.env)

\* ConfigProperty.get_value(use_list, forced) as a function of the class
\* attributes cc: the outcome, the store consulted and cc after the call.
resolve(cc, p, use_list, forced) ==
  LET fromEnv == env_override(p)
      got == get_config(cc, p.proxy)
      config == got.out.inst
      fromPath == IF p.path = PathNone THEN PyNone
                  ELSE get_value(config, p.path, use_list)
      done(status, value, inst, after) ==
        [status |-> status, value |-> value, inst |-> inst, cc |-> after]
  IN  IF Truthy(fromEnv)
      THEN done("ok", fromEnv, NoInstance, cc)
      ELSE IF got.out.status # "ok"
      THEN done(got.out.status, PyNone, NoInstance, got.cc)
      ELSE IF p.path # PathNone /\ Truthy(fromPath)
      THEN done("ok", fromPath, config, got.cc)
      ELSE IF p.default # PyNone THEN done("ok", p.default, config, got.cc)
      ELSE IF forced THEN done(ValueError, PyNone, config, got.cc)
      ELSE done("ok", IF use_list = "True" THEN PyList(<<>>) ELSE PyNone,
                config, got.cc)

\* The use_list each class passes to get_value from its value property.
value_use_list(kind) ==
  IF kind \in Scalars THEN "False"
  ELSE IF kind \in Collections THEN "True"
  ELSE "None"

\* The use_list each class passes to get_value from its fvalue property:
\* only the scalar classes override ConfigProperty.fvalue.
fvalue_use_list(kind) == IF kind \in Scalars THEN "False" ELSE "None"

(***************************************************************************)
(* The record of the last call: what was called, with what, and what it    *)
(* returned or raised.  inst is the instance returned or consulted.        *)
(***************************************************************************)
Call(op, cls, prop, path, use_list, forced, status, value, inst) ==
  [op |-> op, cls |-> cls, prop |-> prop, path |-> path, use_list |-> use_list,
   forced |-> forced, status |-> status, value |-> value, inst |-> inst]

NoCall == Call("-", "-", NoProperty, PathNone, "None", FALSE, "ok", PyNone, NoInstance)

\* The caller is between two calls: the last result has been taken.
Idle == ret = NoCall

\* cls.get_config()
GetConfig(cls) ==
  LET r == get_config(current_config, cls)
  IN  /\ Idle
      /\ current_config' = r.cc
      /\ ret' = Call("get_config", cls, NoProperty, PathNone, "None", FALSE,
                     r.out.status, PyNone, r.out.inst)
      /\ UNCHANGED <<environ, disk>>

\* cls.reload()
Reload(cls) ==
  LET r == reload(current_config, cls)
  IN  /\ Idle
      /\ current_config' = r.cc
      /\ ret' = Call("reload", cls, NoProperty, PathNone, "None", FALSE,
                     r.out.status, PyNone, r.out.inst)
      /\ UNCHANGED <<environ, disk>>

\* get_value(path, use_list) on the instance cls has cached.
GetValue(cls, path, use_list) ==
  LET held == Lookup(current_config, cls)
  IN  /\ Idle
      /\ held.has = "instance"
      /\ ret' = Call("get_value", cls, NoProperty, path, use_list, FALSE, "ok",
                     get_value(held.inst, path, use_list), held.inst)
      /\ UNCHANGED <<environ, disk, current_config>>

\* p.get_value(use_list, forced)
Resolve(p, use_list, forced) ==
  LET r == resolve(current_config, p, use_list, forced)
  IN  /\ Idle
      /\ current_config' = r.cc
      /\ ret' = Call("resolve", p.proxy, p, p.path, use_list, forced,
                     r.status, r.value, r.inst)
      /\ UNCHANGED <<environ, disk>>

\* p.value
Value(p) ==
  LET r == resolve(current_config, p, value_use_list(p.kind), FALSE)
  IN  /\ Idle
      /\ current_config' = r.cc
      /\ ret' = Call("value", p.proxy, p, p.path, value_use_list(p.kind), FALSE,
                     r.status, r.value, r.inst)
      /\ UNCHANGED <<environ, disk>>

\* p.fvalue
FValue(p) ==
  LET r == resolve(current_config, p, fvalue_use_list(p.kind), TRUE)
  IN  /\ Idle
      /\ current_config' = r.cc
      /\ ret' = Call("fvalue", p.proxy, p, p.path, fvalue_use_list(p.kind), TRUE,
                     r.status, r.value, r.inst)
      /\ UNCHANGED <<environ, disk>>

(***************************************************************************)
(* The world outside the process: files are written and removed, and       *)
(* environment variables set and unset.                                    *)
(***************************************************************************)
Contents(file) ==
  CASE file = SchemaPath -> {ABSENT, MALFORMED, SchemaDoc}
    [] file = EnvFile -> {ABSENT, MALFORMED, "D2"}
    [] file = WdFile("config.json") -> {ABSENT, "D1", "D2"}
    [] OTHER -> {ABSENT, "D1"}

EnvNames == {"CONFIG_PATH", "PATH_TO_CONFIG", "DB_HOST"}

EnvValues(name) ==
  IF name = "DB_HOST" THEN {UNSET, "", "envhost"} ELSE {UNSET, "", EnvFile}

WriteFile(file, content) ==
  /\ Idle
  /\ disk[file] # content
  /\ disk' = [disk EXCEPT ![file] = content]
  /\ UNCHANGED <<environ, current_config, ret>>

SetEnv(name, value) ==
  /\ Idle
  /\ environ[name] # value
  /\ environ' = [environ EXCEPT ![name] = value]
  /\ UNCHANGED <<disk, current_config, ret>>

\* The caller takes the result of the last call.
TakeResult ==
  /\ ~Idle
  /\ ret' = NoCall
  /\ UNCHANGED <<environ, disk, current_config>>

FreshClasses == [c \in Classes |-> IF c = Base THEN IsNone ELSE Absent]

(***************************************************************************)
(* Spec: the life of the cached instances.  The process starts with        *)
(* nothing cached, wd/config.json holding D1 and no variable set.          *)
(***************************************************************************)
UseLists == {"None", "True", "False"}

LifeProperties ==
  {Property("ConfigProperty", "database.port", EnvNone, PyNone, c) : c \in Classes}

Init ==
  /\ environ = [n \in EnvNames |-> UNSET]
  /\ disk = [f \in Files |-> IF f = WdFile("config.json") THEN "D1" ELSE ABSENT]
  /\ current_config = FreshClasses
  /\ ret = NoCall

Next ==
  \/ \E cls \in Classes : GetConfig(cls)
  \/ \E cls \in Classes : Reload(cls)
  \/ \E cls \in Classes : \E u \in UseLists : GetValue(cls, "database.port", u)
  \/ \E p \in LifeProperties : Resolve(p, "None", FALSE)
  \/ \E f \in Files : \E c \in Contents(f) : WriteFile(f, c)
  \/ \E n \in {"CONFIG_PATH", "PATH_TO_CONFIG"} : \E v \in EnvValues(n) : SetEnv(n, v)
  \/ TakeResult

Spec == Init /\ [][Next]_vars

(***************************************************************************)
(* SpecResolve: reading properties.  The environment is drawn once: the    *)
(* override variable is unset, empty or set, and wd/config.json is absent  *)
(* or holds D1 or D2; then properties are read in any order.               *)
(***************************************************************************)
Defaults == {PyNone, PyStr("fallback"), PyStr("")}

Declared ==
  {Property("ConfigProperty", path, env, default, proxy) :
     path \in Paths \cup {PathNone}, env \in {EnvNone, "DB_HOST"},
     default \in Defaults, proxy \in Classes}

Typed ==
  {Property(kind, path, env, default, proxy) :
     kind \in Kinds, path \in Paths \cup {PathNone}, env \in {EnvNone, "DB_HOST"},
     default \in Defaults, proxy \in Classes}

InitResolve ==
  /\ environ \in {[n \in EnvNames |-> IF n = "DB_HOST" THEN v ELSE UNSET] :
                    v \in EnvValues("DB_HOST")}
  /\ disk \in {[f \in Files |-> IF f = WdFile("config.json") THEN c ELSE ABSENT] :
                 c \in Contents(WdFile("config.json"))}
  /\ current_config = FreshClasses
  /\ ret = NoCall

NextResolve ==
  \/ \E p \in Declared : \E u \in UseLists : \E f \in BOOLEAN : Resolve(p, u, f)
  \/ \E p \in Typed : Value(p)
  \/ \E p \in Typed : FValue(p)
  \/ \E cls \in Classes : \E path \in Paths : \E u \in UseLists : GetValue(cls, path, u)
  \/ TakeResult

SpecResolve == InitResolve /\ [][NextResolve]_vars

(***************************************************************************)
(* Properties of reading: checked under SpecResolve.                       *)
(***************************************************************************)
Reads == {"resolve", "value", "fvalue"}

\* The declared variable of the last read is set to a non-empty string.
EnvSet == ret.prop.env # EnvNone /\ environ[ret.prop.env] \notin {UNSET, ""}

\* The declared variable of the last read is unset, or none is declared.
EnvUnset == ret.prop.env = EnvNone \/ environ[ret.prop.env] = UNSET

\* The last read consulted a store.
StoreConsulted == ret.op \in Reads /\ ret.inst # NoInstance

\* What the store consulted answers for the declared path and use_list.
PathAnswer ==
  LET m == Find(ret.inst.config, ret.path)
  IN  IF ret.use_list = "True" THEN PyList(m)
      ELSE IF m = <<>> THEN PyNone
      ELSE IF ret.use_list = "False" \/ Len(m) = 1 THEN m[1]
      ELSE PyList(m)

\* C1: a read of a property whose environment variable is set to a non-empty
\* string E returns E, whatever use_list, forced, the path, the document,
\* the default and the state of the cached instance are.
C1_EnvironmentWins ==
  (ret.op \in Reads /\ EnvSet) =>
    (ret.status = "ok" /\ ret.value = Val("s:" \o environ[ret.prop.env]))

\* C1 happens: a forced read with a path and a default declared, no store
\* cached and no config file to create one from, answered from the variable.
C1_Witness ==
  /\ ret.op = "resolve" /\ EnvSet /\ ret.forced
  /\ ret.prop.path = "database.host" /\ ret.prop.default # PyNone
  /\ ret.prop.proxy = Base
  /\ current_config = FreshClasses
  /\ \A f \in ConfigFiles : ~exists(f)
  /\ ret.value = Val("s:envhost")

\* C2: with the variable unset or not declared, and a path whose value in
\* the document is present and not null, the read returns the path's value
\* and ignores the default, for every use_list.
C2_PathValueWins ==
  (StoreConsulted /\ EnvUnset /\ ret.path # PathNone
     /\ Find(ret.inst.config, ret.path) # <<>> /\ PathAnswer # PyNone) =>
    (ret.status = "ok" /\ ret.value = PathAnswer)

\* The path yields nothing: none is declared, or the store answers null or
\* the empty sequence for it.
PathNothing == ret.path = PathNone \/ PathAnswer \in {PyNone, PyList(<<>>)}

\* C3: with the variable unset, the path yielding nothing and no default, a
\* forced read raises ValueError and an unforced one returns [] when
\* use_list is true and None otherwise; a default that is not None is
\* returned instead; ValueError is raised only when the variable, the path
\* and the default all yield nothing.
C3_MissingValueOnlyWhenNothing ==
  StoreConsulted =>
    /\ (EnvUnset /\ PathNothing /\ ret.prop.default = PyNone) =>
         IF ret.forced THEN ret.status = ValueError
         ELSE /\ ret.status = "ok"
              /\ ret.value = IF ret.use_list = "True" THEN PyList(<<>>) ELSE PyNone
    /\ (EnvUnset /\ PathNothing /\ ret.prop.default # PyNone) =>
         (ret.status = "ok" /\ ret.value = ret.prop.default)
    /\ ret.status = ValueError =>
         (~EnvSet /\ PathNothing /\ ret.prop.default = PyNone)

\* C4 as stated: with use_list unset, one match gives the bare value, and
\* zero or several matches give the sequence of the matched values.
C4_AmbiguousModeAsStated ==
  (ret.op = "get_value" /\ ret.use_list = "None") =>
    LET m == Find(ret.inst.config, ret.path)
    IN  ret.value = IF Len(m) = 1 THEN m[1] ELSE PyList(m)

\* C4 amended: with use_list unset, one match gives the bare value, several
\* matches give the sequence of the matched values in match order, and no
\* match gives None.
C4_AmbiguousMode ==
  (ret.op = "get_value" /\ ret.use_list = "None") =>
    LET m == Find(ret.inst.config, ret.path)
    IN  ret.value = CASE Len(m) = 0 -> PyNone
                      [] Len(m) = 1 -> m[1]
                      [] OTHER -> PyList(m)

\* C4 happens: use_list unset and a path that matches nothing.
C4_Witness ==
  /\ ret.op = "get_value" /\ ret.use_list = "None"
  /\ ret.inst.config = "D1" /\ ret.path = "database.password"
  /\ ret.value = PyNone

\* C6: both accessors of a typed class read with the use_list of its shape,
\* False for the scalar classes and True for the collection classes, so a
\* collection class whose path matches one node gets a one-element list
\* from value and from fvalue.
C6_AccessorsPinUseList ==
  (ret.op \in {"value", "fvalue"}) =>
    /\ ret.prop.kind \in Scalars => ret.use_list = "False"
    /\ ret.prop.kind \in Collections => ret.use_list = "True"
    /\ (ret.prop.kind \in Collections /\ StoreConsulted /\ ~EnvSet
          /\ ret.path # PathNone /\ Len(Find(ret.inst.config, ret.path)) = 1) =>
         ret.value = PyList(Find(ret.inst.config, ret.path))

(***************************************************************************)
(* Properties of the cached instance: checked under Spec.                  *)
(***************************************************************************)
\* The step is a call of op on cls, from the point where the caller is idle.
CallStep(op, cls) == Idle /\ ret'.op = op /\ ret'.cls = cls

\* What is on disk for the instance: the document at its config_path, or
\* the empty document of an instance made without a path.
OnDisk(inst) ==
  IF inst.config_path = PathNone THEN EmptyDoc ELSE disk[inst.config_path]

\* C5: once an instance is cached, get_config returns that instance and
\* caches nothing else, only reload of its class replaces it (so an edit of
\* the file changes no answer before reload), and get_value answers from
\* the document the instance read; after a reload that succeeds the cached
\* instance holds what is on disk at that moment.
C5_CachedUntilReload ==
  [][\A c \in Classes :
       /\ (CallStep("get_config", c) /\ Lookup(current_config, c).has = "instance") =>
            /\ ret'.status = "ok"
            /\ ret'.inst = Lookup(current_config, c).inst
            /\ current_config' = current_config
       /\ (current_config[c].has = "instance" /\ current_config'[c] # current_config[c]) =>
            CallStep("reload", c)
       /\ CallStep("get_value", c) =>
            /\ ret'.inst = Lookup(current_config, c).inst
            /\ ret'.value = PathAnswer'
       /\ (CallStep("reload", c) /\ ret'.status = "ok") =>
            /\ current_config'[c] = Holds(ret'.inst)
            /\ ret'.inst.config = OnDisk(ret'.inst)
     ]_vars

\* C5 happens: the file was edited from D1 to D2 after the instance was
\* created, and get_value still answers from D1.
C5_Witness ==
  /\ ret.op = "get_value" /\ ret.use_list = "False"
  /\ ret.inst.config = "D1" /\ disk[ret.inst.config_path] = "D2"
  /\ ret.value = Val("n:0")

\* No config file can be located for cls: its variable is unset or empty and
\* none of its candidates exists.
NothingLocated(cls) ==
  /\ environ[env_location(cls)] \in {UNSET, ""}
  /\ \A i \in 1..Len(config_file_names(cls)) :
       /\ ~exists(WdFile(config_file_names(cls)[i]))
       /\ ~exists(PdFile(config_file_names(cls)[i]))

\* C7: a store type that is not strict never fails with FileNotFoundError
\* from get_config or reload, whatever its variable holds and whichever
\* files exist; when no file can be located it caches and returns an
\* instance with an empty document and no schema, whose get_value returns
\* [] or None.
C7_NonStrictNeverNotFound ==
  /\ (ret.op \in {"get_config", "reload"} /\ ~strict(ret.cls)) =>
       ret.status # FileNotFoundError
  /\ (ret.op = "reload" /\ ~strict(ret.cls) /\ NothingLocated(ret.cls)) =>
       /\ ret.status = "ok"
       /\ ret.inst = Instance(ret.cls, PathNone, EmptyDoc, NoSchema)
       /\ current_config[ret.cls] = Holds(ret.inst)
  /\ (ret.op = "get_value" /\ ret.inst.config = EmptyDoc) =>
       ret.value = IF ret.use_list = "True" THEN PyList(<<>>) ELSE PyNone

\* The names of cls in the working directory, then in the other directory.
C8_Named(cls) ==
  LET names == config_file_names(cls)
  IN  [i \in 1..Len(names) |-> "wd/" \o names[i]] \o
      [i \in 1..Len(names) |-> "pd/" \o names[i]]

\* The candidates of cls in the order the claim gives: the variable's path,
\* then the named files.
C8_Candidates(cls) ==
  LET held == environ[env_location(cls)]
  IN  (IF held \in {UNSET, ""} THEN <<>> ELSE <<held>>) \o C8_Named(cls)

C8_FirstOf(paths) ==
  IF \A i \in 1..Len(paths) : ~exists(paths[i]) THEN PathNone
  ELSE paths[CHOOSE i \in 1..Len(paths) :
               exists(paths[i]) /\ \A j \in 1..(i - 1) : ~exists(paths[j])]

\* C8 as stated: with nothing cached, get_config loads the first candidate
\* that exists, and a strict type fails with FileNotFoundError only if no
\* candidate exists.
C8_DiscoveryAsStated ==
  [][\A c \in Classes :
       (CallStep("get_config", c) /\ Lookup(current_config, c).has # "instance") =>
         LET first == C8_FirstOf(C8_Candidates(c))
         IN  /\ first # PathNone =>
                  /\ ret'.status # FileNotFoundError
                  /\ ret'.status = "ok" => ret'.inst.config_path = first
             /\ (strict(c) /\ ret'.status = FileNotFoundError) => first = PathNone
     ]_vars

\* C8 amended: with nothing cached, get_config uses the variable's path alone
\* when the variable is set and not empty, and otherwise the first name that
\* exists, in the working directory and then in the other one; it loads the
\* file at that path when it exists, and a strict type fails with
\* FileNotFoundError exactly when it does not.
C8_Discovery ==
  [][\A c \in Classes :
       (CallStep("get_config", c) /\ Lookup(current_config, c).has # "instance") =>
         LET held == environ[env_location(c)]
             chosen == IF held \in {UNSET, ""} THEN C8_FirstOf(C8_Named(c)) ELSE held
             there == chosen # PathNone /\ exists(chosen)
         IN  /\ there =>
                  /\ ret'.status # FileNotFoundError
                  /\ ret'.status = "ok" =>
                       /\ ret'.inst.config_path = chosen
                       /\ ret'.inst.config = disk[chosen]
                       /\ current_config'[c] = Holds(ret'.inst)
             /\ strict(c) => (ret'.status = FileNotFoundError <=> ~there)
     ]_vars

\* C8 happens: the variable names a missing file while wd/config.json
\* exists, and get_config of the strict type fails.
C8_Witness ==
  /\ ret.op = "get_config" /\ ret.cls = Base
  /\ environ["CONFIG_PATH"] = EnvFile /\ ~exists(EnvFile)
  /\ exists(WdFile("config.json"))
  /\ ret.status = FileNotFoundError

\* C9: a call through a store type, or a read of a property bound to it,
\* gets an instance of that type, created by it.
C9_OwnInstance ==
  (ret.op \in {"get_config", "reload"} \cup Reads /\ ret.status = "ok"
     /\ ret.inst # NoInstance) =>
    ret.inst.cls = ret.cls

\* C10: after a get_config or a reload that fails, the type has no cached
\* instance; a failed reload leaves None where the old instance was.
C10_FailureCachesNothing ==
  (ret.op \in {"get_config", "reload"} /\ ret.status # "ok") =>
    /\ Lookup(current_config, ret.cls).has # "instance"
    /\ ret.op = "reload" => current_config[ret.cls] = IsNone

\* C10 happens: reload of the base type fails on a document the schema
\* rejects, and the type is left with None.
C10_Witness ==
  /\ ret.op = "reload" /\ ret.cls = Base /\ ret.status = ValidationError
  /\ current_config[Base] = IsNone

====
